---- MODULE Spec2Model ----
(***************************************************************************)
(* Band clustering of berry (python/clustering_libs.py): the MATERIAL      *)
(* object (graph of (k, band) nodes, components, merger, output compiler,  *)
(* signal corrector, outer solve loop) and the COMPONENT object.           *)
(*                                                                         *)
(* Units.  Overlaps (connections) are integers in twentieths: 20 is 1.0,   *)
(* 19 is 0.95, 18 is 0.9, 16 is 0.8, 10 is 0.5, 4 is 0.2.  The mixing      *)
(* tolerance TOL of solve is in tenths (5 is 0.5).  Energies are integers. *)
(* Every quotient the code forms is kept exact by a common denominator, so *)
(* the comparisons are those of exact arithmetic.                          *)
(*                                                                         *)
(* Python's negative index b = -1 into an axis of length NBND is modelled  *)
(* by PyIdx; Python's % and // on negative node ids are the floor          *)
(* operators % and \div of TLA+.                                           *)
(***************************************************************************)
EXTENDS Integers, Sequences, FiniteSets, TLC

(***************************************************************************)
(* Signals (module constants of clustering_libs.py)                        *)
(***************************************************************************)
CORRECT == 5
POTENTIAL_CORRECT == 4
POTENTIAL_MISTAKE == 3
DEGENERATE == 2
MISTAKE == 1
NOT_SOLVED == 0
N_NEIGS == 4

(***************************************************************************)
(* The explored inputs                                                     *)
(***************************************************************************)
NBND == 3
AllBands == 0 .. NBND - 1
Dirs == 0 .. N_NEIGS - 1

\* how many kinds of bond and of energy row are explored
NumBondKinds == 6
NumEnergyRows == 2

\* the grids (nkx, nky) and the band windows (min_band, max_band) explored
Grids == {<<3, 1>>, <<2, 2>>}
Windows == {<<0, 1>>, <<0, 2>>, <<1, 1>>, <<1, 2>>}
\* solve(step, min_tol), in tenths
Steps == {1}
MinTols == {0, 4}

VARIABLES
    material,       \* the input bundle: grid, bond kinds, energy rows, band window, step, min_tol
    pc,             \* where run_clustering / solve stands
    err,            \* the exception that ended the run ("" while none)
    values_in,      \* evaluate_result called on its own: the argument values
    signal_out,     \* evaluate_result called on its own: the signal returned (-1 before)
    iterator,       \* parallelize: list(iterator)
    emitting,       \* parallelize: the items for which f emits an element
    n_process,      \* self.n_process
    i_start,        \* parallelize: the processes started
    process,        \* parallelize: the processes still to be joined
    worker,         \* parallelize: each process's slice, position and the per[0] it read
    result,         \* parallelize: the Manager list result
    per,            \* parallelize: per[0]
    GRAPH_nodes,    \* self.GRAPH: nodes in insertion order
    repairs,        \* history: the degenerate pairs make_connections repaired, each with
                    \* the neighbors before (N1, N2) and after (N1_, N2_)
    GRAPH_edges,    \* self.GRAPH: edges, each a set of two nodes
    solved,         \* self.solved
    clusters,       \* clusters (self.clusters once get_components returns)
    samples,        \* samples
    TOL,            \* solve: the mixing tolerance, in tenths
    bands_final,    \* self.bands_final[k][column]
    signal_final,   \* self.signal_final[k][column]
    final_score,    \* self.final_score[column]
    degenerate_final,           \* self.degenerate_final: rows <<k, bn, bn_>>
    solved_bands,               \* obtain_output: the columns claimed in its latest run
    correct_signalfinal,        \* self.correct_signalfinal
    correct_signalfinal_prev,   \* self.correct_signalfinal_prev
    bands_signaling,            \* correct_signal: the (k, band) set to 1 in bands_signaling
    bands_final_prev,           \* self.bands_final_prev
    bands_final_flag,           \* solve: bands_final_flag
    best_bands_final,           \* self.best_bands_final
    best_score,                 \* self.best_score
    best_signal_final,          \* self.best_signal_final
    degenerate_best,            \* self.degenerate_best
    max_solved,                 \* solve: max_solved
    iterations,                 \* history: passes of the while loop begun
    snapshot,                   \* history: the outputs when solved >= max_solved last held,
                                \* with the pass of the loop that stored them
    compared,                   \* history: bands_final at line 1018 of every pass
    corrected_before,           \* history: correct_signalfinal when the pass began
    merges,                     \* history: merge passes since the partition
    popped,                     \* history: the sample popped by the last merge pass and
                                \* the samples that had its best score in that pass
    clean_components            \* history: get_components found at most one node per k-point
                                \* in every connected component

eval_vars == <<values_in, signal_out>>
parallel_vars == <<iterator, emitting, n_process, i_start, process, worker, result, per>>
graph_vars == <<GRAPH_nodes, GRAPH_edges>>
component_vars == <<solved, clusters, samples, clean_components, merges, popped>>
output_vars == <<bands_final, signal_final, final_score, degenerate_final, solved_bands>>
signal_vars == <<correct_signalfinal, correct_signalfinal_prev, bands_signaling>>
best_vars == <<best_bands_final, best_score, best_signal_final, degenerate_best, max_solved,
               snapshot>>
loop_vars == <<TOL, bands_final_prev, bands_final_flag, iterations, compared, corrected_before>>
vars == <<material, pc, err, repairs, eval_vars, parallel_vars, graph_vars, component_vars, output_vars, signal_vars,
          best_vars, loop_vars>>

NKX == material.grid[1]
NKY == material.grid[2]
NKS == NKX * NKY
Kpoints == 0 .. NKS - 1
min_band == material.window[1]
max_band == material.window[2]
nbnd == max_band + 1 - min_band
n_vectors == nbnd * NKS

(***************************************************************************)
(* Sequence and arithmetic helpers                                         *)
(***************************************************************************)
Abs(x) == IF x < 0 THEN -x ELSE x
Sign(x) == IF x < 0 THEN -1 ELSE IF x > 0 THEN 1 ELSE 0
Range(s) == {s[i] : i \in DOMAIN s}
SetMin(S) == CHOOSE x \in S : \A y \in S : x <= y
SetMax(S) == CHOOSE x \in S : \A y \in S : x >= y
\* the element of a one-element set: names a value computed once
Only(S) == CHOOSE x \in S : TRUE

RECURSIVE SumSeq(_)
SumSeq(s) == IF s = <<>> THEN 0 ELSE Head(s) + SumSeq(Tail(s))

RECURSIVE Gcd(_, _)
Gcd(a, b) == IF b = 0 THEN a ELSE Gcd(b, a % b)
Lcm(a, b) == (a * b) \div Gcd(a, b)
RECURSIVE LcmUpTo(_)
LcmUpTo(n) == IF n <= 1 THEN 1 ELSE Lcm(n, LcmUpTo(n - 1))

\* the elements of a finite set of integers, ascending
RECURSIVE SortedSeq(_)
SortedSeq(S) == IF S = {} THEN <<>> ELSE <<SetMin(S)>> \o SortedSeq(S \ {SetMin(S)})

\* the last index of the greatest element
ArgMaxLast(s) == CHOOSE i \in DOMAIN s :
                    /\ \A j \in DOMAIN s : s[j] <= s[i]
                    /\ \A j \in DOMAIN s : j > i => s[j] < s[i]

\* np.argmax: the first index (from 1) of the greatest element
ArgMax(s) == CHOOSE i \in DOMAIN s :
                /\ \A j \in DOMAIN s : s[j] <= s[i]
                /\ \A j \in DOMAIN s : j < i => s[j] < s[i]

\* np.argsort(keys)[::-1] for the short lists met here (insertion sort, stable):
\* indices by descending key, equal keys in descending index
RECURSIVE ArgSortDesc(_, _)
ArgSortDesc(keys, left) ==
    IF left = {} THEN <<>>
    ELSE LET best == CHOOSE i \in left :
                        \A j \in left : keys[j] < keys[i] \/ (keys[j] = keys[i] /\ j <= i)
         IN <<best>> \o ArgSortDesc(keys, left \ {best})

\* a function, a sequence, an array of rows: the same value, tabulated once
Tab(f) == f @@ <<>>
TabSeq(s) == s \o <<>>
Tab2(a) == Tab([k \in DOMAIN a |-> Tab(a[k])])

\* Python's index -1 on the band axis
PyIdx(b) == IF b >= 0 /\ b < NBND THEN b
            ELSE IF b < 0 /\ b >= -NBND THEN b + NBND
            ELSE CHOOSE x \in {} : TRUE

(***************************************************************************)
(* make_kpointsIndex; the neighbor table (Down, Right, Up, Left)           *)
(***************************************************************************)
Ik(k) == k % NKX
Jk(k) == k \div NKX
matrix(i, j) == j * NKX + i
InGrid(i, j) == i >= 0 /\ i < NKX /\ j >= 0 /\ j < NKY
DirI(d) == CASE d = 0 -> 1 [] d = 1 -> 0 [] d = 2 -> -1 [] OTHER -> 0
DirJ(d) == CASE d = 0 -> 0 [] d = 1 -> 1 [] d = 2 -> 0 [] OTHER -> -1
neighbors(k, d) ==
    IF InGrid(Ik(k) + DirI(d), Jk(k) + DirJ(d))
    THEN matrix(Ik(k) + DirI(d), Jk(k) + DirJ(d)) ELSE -1

\* the bonds of a grid, each named by its lower end and direction (Down or Right)
BondsOf(g) == {<<k, d>> \in (0 .. g[1] * g[2] - 1) \X {0, 1} :
                  IF d = 0 THEN (k % g[1]) + 1 < g[1] ELSE (k \div g[1]) + 1 < g[2]}

(***************************************************************************)
(* The inputs: eigenvalues and connections                                 *)
(***************************************************************************)
\* a bond of kind 100 + c links band b of its lower end to band (c \div 4^b) % 4 of
\* its upper end (3: to none) with overlap 1; bands above 2 run straight
LinkImage(kind, b) == IF b > 2 THEN b ELSE ((kind - 100) \div (4 ^ b)) % 4

\* band-to-band overlaps across one bond, in twentieths
BondValue(kind, b1, b2) ==
    CASE kind >= 100 -> IF LinkImage(kind, b1) = b2 /\ (b1 > 2 \/ b2 < 3) THEN 20 ELSE 0
      [] kind = 1 -> IF b1 = b2 THEN 20 ELSE 0                     \* clean
      [] kind = 2 -> IF b1 = b2 THEN 18 ELSE 0                     \* weak
      [] kind = 3 -> IF b1 <= 1 /\ b2 <= 1 THEN 14                 \* bands 0, 1 rotated
                     ELSE IF b1 = b2 THEN 20 ELSE 0
      [] kind = 4 -> 0                                             \* no overlap
      [] kind = 5 -> IF b1 = b2 /\ b1 # 1 THEN 20 ELSE 0           \* band 1 severed
      [] kind = 6 -> IF (b1 = 1 /\ b2 = 0) \/ (b1 = b2 /\ b1 > 1)  \* band 1 runs into band 0
                     THEN 20 ELSE 0
      [] kind = 7 -> IF {b1, b2} = {0, 1} \/ (b1 = b2 /\ b1 > 1)   \* bands 0, 1 crossed
                     THEN 20 ELSE 0
      [] OTHER    -> IF b1 = b2 THEN 14 ELSE 0

\* energies of the bands at one k-point
EnergyValue(row, b) ==
    CASE row = 1 -> 2 * b
      [] row = 2 -> IF b = 0 THEN 2 ELSE IF b = 1 THEN 0 ELSE 2 * b
      [] row = 3 -> IF b = 0 THEN 1 ELSE 2 * b
      [] row = 9 -> IF b <= 1 THEN 0 ELSE 2 * b                    \* bands 0, 1 degenerate
      [] OTHER   -> 2 * b + 1

\* a chain takes any kind on each bond; on the square all bonds are of one kind
Materials ==
    UNION {{m \in [grid : {g}, bond : [BondsOf(g) -> 1 .. NumBondKinds],
                   row : [0 .. g[1] * g[2] - 1 -> 1 .. NumEnergyRows], window : Windows,
                   step : Steps, min_tol : MinTols] :
              g[2] > 1 => \A x, y \in BondsOf(g) : m.bond[x] = m.bond[y]} : g \in Grids}

\* squares of three bands whose bonds permute the bands or sever some
LinkKinds == {113, 139, 145, 154}
LinkedSquares ==
    {m \in [grid : {<<2, 2>>}, bond : [BondsOf(<<2, 2>>) -> {1} \cup LinkKinds],
            row : [0 .. 3 -> {1}], window : {<<0, 2>>}, step : Steps, min_tol : {4}] : TRUE}

\* chains and squares with k-points where bands 0 and 1 have the same energy, the
\* bonds without overlap between different bands above tol
DegenerateMaterials ==
    UNION {{m \in [grid : {g}, bond : [BondsOf(g) -> {1, 2, 3}],
                   row : [0 .. g[1] * g[2] - 1 -> {1, 9}],
                   window : {<<0, 1>>, <<0, 2>>}, step : Steps, min_tol : {4}] :
              g[2] > 1 => \A x, y \in BondsOf(g) : m.bond[x] = m.bond[y]} : g \in Grids}

\* squares of two bands, degenerate at some k-points but the first, whose bonds keep the bands (1),
\* cross them (7) or sever band 0 (139) or band 1 (144)
RepairKinds == {1, 7, 139, 144}
RepairMaterials ==
    {m \in [grid : {<<2, 2>>}, bond : [BondsOf(<<2, 2>>) -> RepairKinds],
            row : [0 .. 3 -> {1, 9}], window : {<<0, 1>>}, step : Steps, min_tol : {4}] :
        m.row[0] = 1}

eigenvalues(k, b) == EnergyValue(material.row[k], b)
connections(k, d, b1, b2) ==
    IF neighbors(k, d) = -1 THEN 0
    ELSE IF d <= 1 THEN BondValue(material.bond[<<k, d>>], b1, b2)
    ELSE BondValue(material.bond[<<neighbors(k, d), d - 2>>], b2, b1)

(***************************************************************************)
(* make_vectors: the degenerate pairs                                      *)
(***************************************************************************)
NodeK(n) == n % NKS
NodeBand(n) == n \div NKS + min_band

\* [i, d] with i < d, same k-point and numerically equal energy, by ascending i, d
degenerados ==
    LET V == 0 .. n_vectors - 1
        pairs == {p \in V \X V : /\ p[1] < p[2]
                                  /\ NodeK(p[1]) = NodeK(p[2])
                                  /\ eigenvalues(NodeK(p[1]), NodeBand(p[1]))
                                       = eigenvalues(NodeK(p[2]), NodeBand(p[2]))}
    IN  SortedSeq({p[1] * n_vectors + p[2] : p \in pairs})

DegPair(i) == <<degenerados[i] \div n_vectors, degenerados[i] % n_vectors>>

(***************************************************************************)
(* make_connections: the edges                                             *)
(***************************************************************************)
\* run_clustering: make_connections(tol = 0.95), in twentieths
GraphTol == 19

\* connection_component: the candidate [i_, j_] met for node i_, in the code's order
\* (band of the window outermost, direction innermost); j_ uses the absolute band
EdgeCandidates(i_) ==
    LET cand == {<<b, d>> \in (min_band .. max_band) \X Dirs : neighbors(NodeK(i_), d) # -1}
        order == SortedSeq({c[1] * N_NEIGS + c[2] : c \in cand})
    IN  TabSeq([x \in DOMAIN order |->
            <<i_, neighbors(NodeK(i_), order[x] % N_NEIGS) + (order[x] \div N_NEIGS) * NKS,
              order[x] % N_NEIGS>>])

\* bn2 = j_ // nks + min_band indexes the band axis of connections
EdgeIndexError ==
    \E i_ \in 0 .. n_vectors - 1 : \E x \in DOMAIN EdgeCandidates(i_) :
        EdgeCandidates(i_)[x][2] \div NKS + min_band >= NBND

EdgeKept(c) ==
    connections(NodeK(c[1]), c[3], c[1] \div NKS + min_band, c[2] \div NKS + min_band) > GraphTol

RECURSIVE EdgeList(_)
EdgeList(i_) ==
    IF i_ >= n_vectors THEN <<>>
    ELSE SelectSeq(EdgeCandidates(i_), EdgeKept) \o EdgeList(i_ + 1)

\* nx.Graph.add_edges_from: nodes not yet in the graph are appended, u before v
AddEdgeNodes(nodes, edges) ==
    LET flat == [x \in 1 .. 2 * Len(edges) |-> edges[(x + 1) \div 2][2 - (x % 2)]]
        first == {x \in DOMAIN flat : /\ flat[x] \notin Range(nodes)
                                      /\ \A y \in 1 .. x - 1 : flat[y] # flat[x]}
        order == SortedSeq(first)
    IN  nodes \o [x \in DOMAIN order |-> flat[order[x]]]

EdgeSet(edges) == {{edges[x][1], edges[x][2]} : x \in DOMAIN edges}

(***************************************************************************)
(* COMPONENT                                                               *)
(***************************************************************************)
\* __init__: nodes in the order of the graph, __id__ the first node, no scores yet
COMPONENT(nodes) ==
    [nodes |-> nodes, id |-> nodes[1], was_modified |-> FALSE, scores |-> <<>>]

CompN(c) == Len(c.nodes)
\* calculate_pointsMatrix / get_bands: k_points, the band offsets, bands_number
k_points(c) == [x \in DOMAIN c.nodes |-> c.nodes[x] % NKS]
k_bands(c) == [x \in DOMAIN c.nodes |-> c.nodes[x] \div NKS]
KSet(c) == Range(k_points(c))
\* dict(zip(k_points, k_bands)): the last node at a k-point decides
bands_number(c, k) ==
    k_bands(c)[SetMax({x \in DOMAIN c.nodes : c.nodes[x] % NKS = k})]

\* validate: room for the other component and disjoint position masks
validate(self, component) ==
    /\ CompN(component) <= NKS - CompN(self)
    /\ Cardinality((KSet(self) \ KSet(component)) \cup (KSet(component) \ KSet(self)))
          = CompN(self) + CompN(component)

\* join: the other component's nodes are added after the own ones
\* a join that marks the cluster and adds nothing
join_nothing(self, component) == [self EXCEPT !.was_modified = TRUE]

join(self, component) ==
    [self EXCEPT !.nodes = self.nodes \o SelectSeq(component.nodes,
                                          LAMBDA n : n \notin Range(self.nodes)),
                 !.was_modified = TRUE]

\* scipy.ndimage.correlate, mode 'reflect': an index off the grid is mirrored at the edge
Reflect(x, n) == IF x < 0 THEN 0 ELSE IF x >= n THEN n - 1 ELSE x
Pos(c, i, j) == IF matrix(Reflect(i, NKX), Reflect(j, NKY)) \in KSet(c) THEN 1 ELSE 0
\* Gx = [[-1, 0, 1]] * 3 weighs the second axis, Gy = Gx.T the first
Ax(c, i, j) == SumSeq([x \in 1 .. 3 |-> Pos(c, i + x - 2, j + 1) - Pos(c, i + x - 2, j - 1)])
Ay(c, i, j) == SumSeq([x \in 1 .. 3 |-> Pos(c, i + 1, j + x - 2) - Pos(c, i - 1, j + x - 2)])
boundary(c) == {k \in KSet(c) : Ax(c, Ik(k), Jk(k)) # 0 \/ Ay(c, Ik(k), Jk(k)) # 0}
\* calc_boundary: k_edges (all the nodes' k-points when no boundary)
k_edges(c) == IF boundary(c) = {} THEN KSet(c) ELSE boundary(c)

\* the reversed argsort itself, not the band offsets it orders
get_bands_argsort(c) ==
    LET offs == SortedSeq(Range(k_bands(c)))
        counts == TabSeq([x \in DOMAIN offs |->
                      Cardinality({y \in DOMAIN c.nodes : k_bands(c)[y] = offs[x]})])
        order == ArgSortDesc(counts, DOMAIN offs)
    IN  TabSeq([x \in DOMAIN order |-> order[x] - 1])

\* get_bands: band offsets by descending count (np.unique, argsort reversed)
get_bands(c) ==
    LET offs == SortedSeq(Range(k_bands(c)))
        counts == TabSeq([x \in DOMAIN offs |->
                      Cardinality({y \in DOMAIN c.nodes : k_bands(c)[y] = offs[x]})])
        order == ArgSortDesc(counts, DOMAIN offs)
    IN  TabSeq([x \in DOMAIN order |-> offs[order[x]]])

\* calc_boundary: k_edges as the array the score loops over
k_edges_seq(c) == IF boundary(c) = {} THEN k_points(c) ELSE SortedSeq(boundary(c))

(***************************************************************************)
(* COMPONENT.get_cluster_score                                             *)
(***************************************************************************)
\* common denominators: of the energy quotients, of the division by len(k_edges)
EScale == LcmUpTo(2 * NBND)
KScale == LcmUpTo(2 * NKS)
Exact(num, den) == IF num % den = 0 THEN num \div den
                   ELSE CHOOSE x \in {} : TRUE     \* outside the exact range: no value

\* difference_energy: min over the window's bands of |Ei - E(bn, k_n)| over
\* |Ei - E(bn2, k_n)|, 1 when the latter is 0; in units of 1 / EScale
difference_energy(Ei, bn2, k_n) ==
    LET min_energy == SetMin({Abs(Ei - eigenvalues(k_n, bn)) : bn \in min_band .. max_band})
        delta_energy == Abs(Ei - eigenvalues(k_n, PyIdx(bn2)))
    IN  IF delta_energy = 0 THEN EScale ELSE Exact(min_energy * EScale, delta_energy)

\* fit_energy: the sample's points on the line from k away from k_n (k itself and
\* up to N = 4 further ones)
FitPoints(self, k, k_n) ==
    {t \in 0 .. 4 :
        LET i == Ik(k) + t * Sign(Ik(k) - Ik(k_n))
            j == Jk(k) + t * Sign(Jk(k) - Jk(k_n))
        IN  InGrid(i, j) /\ matrix(i, j) \in KSet(self)}

\* with at most 3 such points the nearest-neighbor energy difference is used; the
\* quadratic fit of 4 or 5 points needs a grid line of 5 k-points
fit_energy(self, bn1, bn2, k, k_n) ==
    IF Cardinality(FitPoints(self, k, k_n)) <= 3
    THEN difference_energy(eigenvalues(k, PyIdx(bn1)), bn2, k_n)
    ELSE CHOOSE x \in {} : TRUE

\* the score before the cache, times 10 * 20 * EScale * KScale * 4
cluster_score(self, cluster, tol) ==
    LET ks == k_edges_seq(self)
        cluster_k_edges == k_edges(cluster)
        term(k, d) ==
            LET k_n == neighbors(k, d)
                bn1 == bands_number(self, k) + min_band
                bn2 == bands_number(cluster, k_n) + min_band
            IN  tol * connections(k, d, PyIdx(bn1), PyIdx(bn2)) * EScale
                  + (10 - tol) * 20 * fit_energy(self, bn1, bn2, k, k_n)
        ofk(k) == SumSeq([d1 \in 1 .. N_NEIGS |->
                    IF neighbors(k, d1 - 1) # -1 /\ neighbors(k, d1 - 1) \in cluster_k_edges
                    THEN term(k, d1 - 1) ELSE 0])
    IN  SumSeq([x \in DOMAIN ks |-> ofk(ks[x])]) * Exact(KScale, Len(ks))

\* a cluster flagged was_modified answers with the score stored before
get_cluster_score(self, cluster, tol) ==
    IF cluster.was_modified THEN self.scores[cluster.id]
    ELSE cluster_score(self, cluster, tol)

(***************************************************************************)
(* evaluate_result                                                         *)
(***************************************************************************)
EvalTOL == 18
EvalTOL_DEG == 16
EvalTOL_MIN == 4

\* the signal of the mean of values; the mean of no value is nan, which fails
\* every comparison
evaluate_result(values) ==
    LET n == Len(values)
        total == SumSeq(values)
    IN  IF n = 0 THEN MISTAKE
        ELSE IF total > EvalTOL * n THEN CORRECT
        ELSE IF total > EvalTOL_DEG * n THEN POTENTIAL_CORRECT
        ELSE IF total > EvalTOL_MIN * n /\ total < EvalTOL_DEG * n THEN POTENTIAL_MISTAKE
        ELSE MISTAKE

(***************************************************************************)
(* MATERIAL.obtain_output: bands and signals of the components             *)
(***************************************************************************)
DirSeq == [x \in 1 .. N_NEIGS |-> x - 1]
NeigDirs(k) == SelectSeq(DirSeq, LAMBDA d : neighbors(k, d) # -1)

\* the most frequent band offset, claimed or not
FirstBand(bands, used) == 1

\* the same when the bands a component consumed in the previous call stay consumed
FirstFreeLeft(bands, used) ==
    LET gone == Range(used) \cup (IF pc = "correct_signal" THEN Range(solved_bands) ELSE {})
    IN  IF \E x \in DOMAIN bands : bands[x] + min_band \notin gone
        THEN SetMin({x \in DOMAIN bands : bands[x] + min_band \notin gone})
        ELSE 0

\* the first band offset of the component whose physical band is still free
\* (0 when none is)
FirstFree(bands, used) ==
    IF \E x \in DOMAIN bands : bands[x] + min_band \notin Range(used)
    THEN SetMin({x \in DOMAIN bands : bands[x] + min_band \notin Range(used)})
    ELSE 0

\* the overlaps of node k of the component with its neighbors' chosen bands; a
\* neighbor outside a cluster counts 0
RealizedConnections(c, k) ==
    LET ds == NeigDirs(k)
    IN  TabSeq([x \in DOMAIN ds |->
            IF neighbors(k, ds[x]) \notin KSet(c) THEN 0
            ELSE connections(k, ds[x], PyIdx(bands_number(c, k) + min_band),
                             PyIdx(bands_number(c, neighbors(k, ds[x])) + min_band))])

\* solved.bands_number[k_neig] of a k-point the component does not hold
MissingNeighbor(c) ==
    \E k \in KSet(c) : \E d \in Dirs : neighbors(k, d) # -1 /\ neighbors(k, d) \notin KSet(c)

\* the band offset alone, the window's first band left out
BandOffsetOnly(c, k) == bands_number(c, k)

\* bands + self.min_band (lines 725, 752): the original band of the component at k
OriginalBand(c, k) == bands_number(c, k) + min_band

\* bands_final[c.k_points, bn] = bands + min_band and the signals of column bn
WriteComponent(acc, c, bn) ==
    [acc EXCEPT
        !.solved_bands = Append(acc.solved_bands, bn),
        !.bands_final = Tab2([k \in Kpoints |->
            IF k \in KSet(c)
            THEN [acc.bands_final[k] EXCEPT ![PyIdx(bn)] = OriginalBand(c, k)]
            ELSE acc.bands_final[k]]),
        !.signal_final = Tab2([k \in Kpoints |->
            IF k \in KSet(c)
            THEN [acc.signal_final[k] EXCEPT ![PyIdx(bn)] =
                     evaluate_result(RealizedConnections(c, k))]
            ELSE acc.signal_final[k]])]

\* lines 716-736: the solved components, in the order of self.solved
RECURSIVE CompileSolved(_, _)
CompileSolved(acc, comps) ==
    IF comps = <<>> \/ acc.err # "" THEN acc
    ELSE LET c == Head(comps)
             x == FirstFree(get_bands(c), acc.solved_bands)
         IN  IF x = 0 THEN [acc EXCEPT !.err = "IndexError"]
             ELSE IF MissingNeighbor(c) THEN [acc EXCEPT !.err = "KeyError"]
             ELSE CompileSolved(WriteComponent(acc, c, get_bands(c)[x] + min_band), Tail(comps))

\* lines 738-765: the clusters by descending size; the first one that finds no
\* free band ends the loop
RECURSIVE CompileClusters(_, _, _)
CompileClusters(acc, cls, order) ==
    IF order = <<>> \/ acc.err # "" THEN acc
    ELSE LET c == cls[Head(order)]
             x == FirstFree(get_bands(c), acc.solved_bands)
         IN  IF x = 0 THEN acc
             ELSE CompileClusters(WriteComponent(acc, c, get_bands(c)[x] + min_band),
                                  cls, Tail(order))

\* lines 767-778: the degenerate pairs are signalled in the column that holds
\* their band (their own column when none does)
ColumnOf(bf, k, b) ==
    IF \E col \in AllBands : bf[k][col] = b
    THEN SetMin({col \in AllBands : bf[k][col] = b}) ELSE b

RECURSIVE MarkDegenerate(_, _, _)
MarkDegenerate(sf, bf, x) ==
    IF x > Len(degenerados) THEN sf
    ELSE LET d1 == DegPair(x)[1]
             d2 == DegPair(x)[2]
             s1 == [sf EXCEPT ![NodeK(d1)][ColumnOf(bf, NodeK(d1), NodeBand(d1))] = DEGENERATE]
             s2 == [s1 EXCEPT ![NodeK(d2)][ColumnOf(bf, NodeK(d2), NodeBand(d2))] = DEGENERATE]
         IN  MarkDegenerate(s2, bf, x + 1)

(***************************************************************************)
(* MATERIAL.obtain_output: basis rotations, final_score, degenerate_final  *)
(***************************************************************************)
DegLow == 10
DegHigh == 16
\* common denominator of the means over 1 .. N_NEIGS neighbors
FScale == LcmUpTo(N_NEIGS)

\* i_neigs: the directions of k whose neighbor is signalled in column bn
SignalledDirs(sf, k, bn) ==
    SelectSeq(NeigDirs(k), LAMBDA d : sf[neighbors(k, d)][bn] # NOT_SOLVED)

\* dps: the overlaps of column bn at k with the same column at those neighbors
Dps(bf, sf, k, bn) ==
    LET ds == SignalledDirs(sf, k, bn)
    IN  TabSeq([x \in DOMAIN ds |->
            connections(k, ds[x], PyIdx(bf[k][bn]), PyIdx(bf[neighbors(k, ds[x])][bn]))])

Visited(sf, k, bn) == sf[k][bn] # NOT_SOLVED /\ SignalledDirs(sf, k, bn) # <<>>

RotationTrigger(bf, sf, k, bn) ==
    /\ Visited(sf, k, bn)
    /\ \E x \in DOMAIN Dps(bf, sf, k, bn) :
          Dps(bf, sf, k, bn)[x] >= DegLow /\ Dps(bf, sf, k, bn)[x] <= DegHigh

\* np.where on dps_deg: (row, band) with an overlap in [0.5, 0.8]
DegWhere(bf, sf, k, bn) ==
    LET ds == SignalledDirs(sf, k, bn)
    IN  {w \in (DOMAIN ds) \X AllBands :
            LET v == connections(k, ds[w[1]], PyIdx(bf[k][bn]), w[2])
            IN  v >= DegLow /\ v <= DegHigh}

\* k_deg = neighbors[k][i_deg + min(i_neigs)]
KDegOf(sf, k, bn, row) == neighbors(k, (row - 1) + SignalledDirs(sf, k, bn)[1])

\* the values of k_deg that gather more than one band, ascending
DegGroups(bf, sf, k, bn) ==
    LET W == DegWhere(bf, sf, k, bn)
        ks == {KDegOf(sf, k, bn, w[1]) : w \in W}
    IN  SortedSeq({g \in ks : Cardinality({w \in W : KDegOf(sf, k, bn, w[1]) = g}) > 1})

\* [k, k_deg, bn, bns_deg] as appended to k_basis_rotation
RotationEntry(bf, sf, k, bn) ==
    LET W == DegWhere(bf, sf, k, bn)
        gs == DegGroups(bf, sf, k, bn)
    IN  [k |-> k, k_deg |-> gs, bn |-> bn,
         bns_deg |-> TabSeq([x \in DOMAIN gs |->
                        {w[2] : w \in {v \in W : KDegOf(sf, k, bn, v[1]) = gs[x]}}])]

\* a single group is read as bn_unique[i_deg] with i_deg an array: TypeError
RotationTypeError(bf, sf) ==
    \E bn \in AllBands : \E k \in Kpoints :
        RotationTrigger(bf, sf, k, bn) /\ Len(DegGroups(bf, sf, k, bn)) = 1

\* k_basis_rotation: column outermost, k-point innermost
k_basis_rotation(bf, sf) ==
    LET at(t) == <<t % NKS, t \div NKS>>
    IN  Only({TabSeq([x \in DOMAIN hits |->
                  RotationEntry(bf, sf, at(hits[x])[1], at(hits[x])[2])])
              : hits \in {SelectSeq([t \in 1 .. NBND * NKS |-> t - 1],
                              LAMBDA t : /\ RotationTrigger(bf, sf, at(t)[1], at(t)[2])
                                         /\ Len(DegGroups(bf, sf, at(t)[1], at(t)[2])) > 1)}})

\* final_score[bn]: the sum over k of mean(dps), over nks; in units of
\* 1 / (20 * FScale * nks)
ScoreOf(bf, sf, bn) ==
    SumSeq([k1 \in 1 .. NKS |->
        IF Visited(sf, k1 - 1, bn)
        THEN SumSeq(Dps(bf, sf, k1 - 1, bn)) * Exact(FScale, Len(Dps(bf, sf, k1 - 1, bn)))
        ELSE 0])

\* lines 825-830: entry a pairs with the later entry b
RotationPair(a, b) ==
    /\ a.k = b.k
    /\ IF Len(a.k_deg) = Len(b.k_deg) THEN a.k_deg = b.k_deg
       ELSE CHOOSE x \in {} : TRUE
    /\ \A j \in DOMAIN a.bns_deg : a.bns_deg[j] \subseteq b.bns_deg[j]

\* lines 833-847: a row already in degenerates that names k among its k_deg is
\* re-weighed through np.array(1, -1), a TypeError; otherwise the row is appended
RECURSIVE Degenerates(_, _, _, _)
Degenerates(acc, kbr, i, j) ==
    IF i >= Len(kbr) \/ acc.err # "" THEN acc
    ELSE IF j > Len(kbr) THEN Degenerates(acc, kbr, i + 1, i + 2)
    ELSE IF ~RotationPair(kbr[i], kbr[j]) THEN Degenerates(acc, kbr, i, j + 1)
    ELSE IF \E x \in DOMAIN acc.rows :
                /\ acc.rows[x].k = kbr[i].k
                /\ {kbr[i].bn, kbr[j].bn} \subseteq {acc.rows[x].bn, acc.rows[x].bn_}
                /\ kbr[i].k \in Range(acc.rows[x].k_deg)
         THEN [acc EXCEPT !.err = "TypeError"]
    ELSE Degenerates([acc EXCEPT !.rows = Append(acc.rows,
                         [k |-> kbr[i].k, bn |-> kbr[i].bn, bn_ |-> kbr[j].bn,
                          k_deg |-> kbr[i].k_deg])],
                     kbr, i, j + 1)

\* obtain_output: the arrays after one run over the current components
obtain_output(bf, sf) ==
    LET a0 == [bands_final |-> bf, signal_final |-> sf, solved_bands |-> <<>>, err |-> ""]
        order == ArgSortDesc(TabSeq([x \in DOMAIN clusters |-> CompN(clusters[x])]),
                             DOMAIN clusters)
    IN  Only({
          IF a2.err # "" THEN [a0 EXCEPT !.err = a2.err]
          ELSE Only({
            IF RotationTypeError(a2.bands_final, sf3) THEN [a0 EXCEPT !.err = "TypeError"]
            ELSE Only({
              IF deg.err # "" THEN [a0 EXCEPT !.err = deg.err]
              ELSE [bands_final |-> a2.bands_final,
                    signal_final |-> sf3,
                    final_score |-> Tab([bn \in AllBands |->
                                        ScoreOf(a2.bands_final, sf3, bn)]),
                    degenerate_final |-> TabSeq([x \in DOMAIN deg.rows |->
                                        <<deg.rows[x].k, deg.rows[x].bn, deg.rows[x].bn_>>]),
                    solved_bands |-> a2.solved_bands,
                    err |-> ""]
              : deg \in {Degenerates([rows |-> <<>>, err |-> ""],
                                     k_basis_rotation(a2.bands_final, sf3), 1, 2)}})
            : sf3 \in {MarkDegenerate(a2.signal_final, a2.bands_final, 1)}})
          : a2 \in {CompileClusters(CompileSolved(a0, solved), clusters, order)}})

(***************************************************************************)
(* evaluate_point                                                          *)
(***************************************************************************)
ContinuityTol == 9
SIGNAL_OTHER == 3

\* a direction keeps the energy continuous: no point that way, or the nearest
\* neighbor's energy is closer to Ek than 0.9 allows (grid lines of at most 4
\* k-points never reach the curve fit)
Continuity(bf, k, bn, d) ==
    \/ neighbors(k, d) = -1
    \/ LET Ek == eigenvalues(k, PyIdx(bf[k][bn]))
           Eneig == eigenvalues(neighbors(k, d), PyIdx(bf[neighbors(k, d)][bn]))
           min_energy == SetMin({Abs(Eneig - eigenvalues(k, b)) : b \in AllBands})
           delta_energy == Abs(Eneig - Ek)
       IN  delta_energy = 0 \/ 10 * min_energy > ContinuityTol * delta_energy

evaluate_point(bf, k, bn) ==
    LET score == Cardinality({d \in Dirs : Continuity(bf, k, bn, d)})
    IN  IF score = N_NEIGS THEN CORRECT - 1
        ELSE IF score = 0 THEN MISTAKE
        ELSE SIGNAL_OTHER

(***************************************************************************)
(* MATERIAL.correct_signal (after its call of obtain_output)               *)
(***************************************************************************)
\* lines 901-921: CORRECT becomes 4, the potential signals are re-evaluated
CorrectedSignals(bf, sf) ==
    Tab2([k \in Kpoints |-> [bn \in AllBands |->
        IF sf[k][bn] = CORRECT THEN CORRECT - 1
        ELSE IF sf[k][bn] \in {POTENTIAL_CORRECT, POTENTIAL_MISTAKE} THEN evaluate_point(bf, k, bn)
        ELSE sf[k][bn]]])

\* the MISTAKE entries alone
ErrorMaskMistakes(csf, prev) ==
    {e \in Kpoints \X AllBands : csf[e[1]][e[2]] = MISTAKE}

\* lines 923-933: the MISTAKE entries and the OTHER ones that were not SIGNAL_OTHER before
ErrorMask(csf, prev) ==
    {e \in Kpoints \X AllBands :
        \/ csf[e[1]][e[2]] = MISTAKE
        \/ csf[e[1]][e[2]] = SIGNAL_OTHER /\ prev[e[1]][e[2]] # SIGNAL_OTHER}

\* no entry is taken to persist
OtherNeverSame(csf, prev) == {}

\* k_ot, bn_ot: the OTHER entries that were SIGNAL_OTHER before
OtherSame(csf, prev) ==
    {e \in Kpoints \X AllBands : csf[e[1]][e[2]] = SIGNAL_OTHER /\ prev[e[1]][e[2]] = SIGNAL_OTHER}

\* the masked k-points of a column, spread by the 3 x 3 filter when they are
\* more than 5% of the grid
identify_points(mask, bn) ==
    LET band == {k \in Kpoints : <<k, bn>> \in mask}
    IN  IF 20 * Cardinality(band) > NKS
        THEN {k \in Kpoints : \E a, b \in -1 .. 1 :
                 matrix(Reflect(Ik(k) + a, NKX), Reflect(Jk(k) + b, NKY)) \in band}
        ELSE band

\* kp in self.degenerate_final: any entry of any row equals kp
InDegenerateFinal(df, kp) == \E x \in DOMAIN df : kp \in Range(df[x])

\* lines 953-966: the edges of column bn, first axis outermost, Down before Right
SignalEdges(bf, df, mask, bn) ==
    LET ident == identify_points(mask, bn)
        kpOf(t) == matrix(t \div (2 * NKY), (t \div 2) % NKY)
        node(k) == k + (bf[k][bn] - min_band) * NKS
        hits == SelectSeq([t \in 1 .. 2 * NKS |-> t - 1],
                    LAMBDA t : /\ ~(kpOf(t) \in ident /\ ~InDegenerateFinal(df, kpOf(t)))
                               /\ neighbors(kpOf(t), t % 2) # -1
                               /\ neighbors(kpOf(t), t % 2) \notin ident)
    IN  TabSeq([x \in DOMAIN hits |->
            <<node(kpOf(hits[x])), node(neighbors(kpOf(hits[x]), hits[x] % 2)), hits[x] % 2>>])

RECURSIVE AllSignalEdges(_, _, _, _)
AllSignalEdges(bf, df, mask, bn) ==
    IF bn > max_band THEN <<>>
    ELSE SignalEdges(bf, df, mask, bn) \o AllSignalEdges(bf, df, mask, bn + 1)

\* correct_signal on the arrays obtain_output left: the signals and the new graph.
\* The copy to correct_signalfinal_prev sits in the loop over the window's bands,
\* before the persisting OTHER entries are set to 4.
correct_signal(out, prev) ==
    LET csf == CorrectedSignals(out.bands_final, out.signal_final)
        k_ot == OtherSame(csf, prev)
        after == Tab2([k \in Kpoints |-> [bn \in AllBands |->
                     IF <<k, bn>> \in k_ot THEN CORRECT - 1 ELSE csf[k][bn]]])
        mask == ErrorMask(csf, prev)
        edges == AllSignalEdges(out.bands_final, out.degenerate_final, mask, min_band)
    IN  [correct_signalfinal |-> after,
         bands_signaling |-> mask,
         correct_signalfinal_prev |-> IF nbnd = 1 THEN csf ELSE after,
         GRAPH_nodes |-> AddEdgeNodes([x \in 1 .. n_vectors |-> x - 1], edges),
         GRAPH_edges |-> EdgeSet(edges)]

(***************************************************************************)
(* get_components: the connected components of the graph                   *)
(***************************************************************************)
RECURSIVE Closure(_, _)
Closure(S, E) ==
    LET T == S \cup UNION {e \in E : e \cap S # {}}
    IN  IF T = S THEN S ELSE Closure(T, E)

\* find_path(i, j): j is reached from i without passing through another
\* degenerate point
find_path(i, j, E) ==
    LET other == UNION {{DegPair(x)[1], DegPair(x)[2]} : x \in DOMAIN degenerados} \ {i, j}
    IN  j \in Closure({i}, {e \in E : e \cap other = {}})

\* self.degenerates (line 568): the degenerate pairs without a path
degenerates(E) ==
    SelectSeq([x \in DOMAIN degenerados |-> DegPair(x)],
              LAMBDA p : ~find_path(p[1], p[2], E))

\* list.pop(i) / the list without its i-th entry (from 1)
RemoveAt(s, i) == TabSeq([x \in 1 .. Len(s) - 1 |-> IF x < i THEN s[x] ELSE s[x + 1]])

\* get_neigs: the neighbors of node i in the order their edges were added
get_neigs(i, es) ==
    LET first == {x \in DOMAIN es :
                     /\ i \in {es[x][1], es[x][2]}
                     /\ \A y \in 1 .. x - 1 : {es[y][1], es[y][2]} # {es[x][1], es[x][2]}}
        order == SortedSeq(first)
    IN  [x \in DOMAIN order |->
            IF es[order[x]][1] = i THEN es[order[x]][2] ELSE es[order[x]][1]]

\* np.where(N % NKS == n % NKS)[0][0]: the first index (from 1), 0 when there is none
FirstAt(N, n) ==
    IF \E x \in DOMAIN N : N[x] % NKS = n % NKS
    THEN SetMin({x \in DOMAIN N : N[x] % NKS = n % NKS}) ELSE 0

\* the first node of a pair
FirstOfPair(n, n1) == n[1]

\* n[np.argmin(np.abs(n - n1))] and n[np.argmax(np.abs(n - n1))] of a pair n
Nearest(n, n1) == IF Abs(n[2] - n1) < Abs(n[1] - n1) THEN n[2] ELSE n[1]
Farthest(n, n1) == IF Abs(n[2] - n1) > Abs(n[1] - n1) THEN n[2] ELSE n[1]

\* lines 529-543: the pairs N of neighbors at the same k-point; miss when np.where
\* finds none (IndexError); flag stays as it was when both lists hold one node
NeighborPairs(N1, N2, flag) ==
    IF Len(N1) > 1 /\ Len(N2) > 1
    THEN [miss |-> \E x \in DOMAIN N1 : FirstAt(N2, N1[x]) = 0,
          N |-> [x \in DOMAIN N1 |-> <<N1[x], N2[FirstAt(N2, N1[x])]>>],
          flag |-> "False"]
    ELSE IF Len(N1) = Len(N2)
    THEN [miss |-> FALSE, N |-> <<<<N1[1], N2[1]>>>>, flag |-> flag]
    ELSE Only({[miss |-> FirstAt(N_2, N_1[1]) = 0,
                N |-> <<<<N_1[1], N_2[FirstAt(N_2, N_1[1])]>>>>
                        \o [x \in 1 .. Len(N_2) - 1 |->
                               <<RemoveAt(N_2, FirstAt(N_2, N_1[1]))[x]>>],
                flag |-> "True"] :
               N_1 \in {IF Len(N1) < Len(N2) THEN N1 ELSE N2},
               N_2 \in {IF Len(N1) < Len(N2) THEN N2 ELSE N1}})

\* lines 545-556: the neighbors given to d1 and to d2 once n1 is drawn from N[0]
AssignNeighbors(N, flag, n1) ==
    IF flag = "True"
    THEN LET n2 == Farthest(N[1], n1)
             rest == [x \in 1 .. Len(N) - 1 |-> N[x + 1][1]]
         IN  [N1_ |-> <<n1>> \o SelectSeq(rest, LAMBDA n : Abs(n1 - n) <= Abs(n2 - n)),
              N2_ |-> <<n2>> \o SelectSeq(rest, LAMBDA n : Abs(n1 - n) > Abs(n2 - n))]
    ELSE [N1_ |-> [x \in DOMAIN N |-> Nearest(N[x], n1)],
          N2_ |-> [x \in DOMAIN N |-> Farthest(N[x], n1)]]

\* lines 512-566 for one pair: st holds the edges in the order they were added, flag
\* ("unbound" until an assignment), the exception and the repairs done; choice is
\* what np.random.choice draws
RepairPair(st, d, choice) ==
    IF st.err # "" \/ ~find_path(d[1], d[2], EdgeSet(st.edges)) THEN st
    ELSE Only({
        IF N1 = <<>> \/ N2 = <<>> THEN st
        ELSE Only({
            IF np.miss THEN [st EXCEPT !.err = "IndexError"]
            ELSE IF np.flag = "unbound" THEN [st EXCEPT !.err = "UnboundLocalError"]
            ELSE Only({
                [edges |-> SelectSeq(st.edges, LAMBDA e : {e[1], e[2]} \cap {d[1], d[2]} = {})
                             \o [x \in DOMAIN a.N1_ |-> <<a.N1_[x], d[1]>>]
                             \o [x \in DOMAIN a.N2_ |-> <<a.N2_[x], d[2]>>],
                 flag |-> np.flag,
                 err |-> "",
                 log |-> Append(st.log, [d1 |-> d[1], d2 |-> d[2], N1 |-> N1, N2 |-> N2,
                                         N1_ |-> a.N1_, N2_ |-> a.N2_])] :
                a \in {AssignNeighbors(np.N, np.flag, np.N[1][choice])}}) :
            np \in {NeighborPairs(N1, N2, st.flag)}}) :
        N1 \in {get_neigs(d[1], st.edges)}, N2 \in {get_neigs(d[2], st.edges)}})

\* for d1, d2 in self.degenerados, from the x-th pair on
RECURSIVE RepairFrom(_, _, _)
RepairFrom(st, x, choices) ==
    IF x > Len(degenerados) THEN st
    ELSE RepairFrom(RepairPair(st, DegPair(x), choices[x]), x + 1, choices)

\* the draws of np.random.choice(N[0]), one for each pair
Choices == [DOMAIN degenerados -> 1 .. 2]

\* nx.connected_components: by first node in the graph's order; the nodes of the
\* subgraph are taken in the graph's order
RECURSIVE ConnectedComponents(_, _)
ConnectedComponents(nodes, E) ==
    IF nodes = <<>> THEN <<>>
    ELSE LET c == Closure({Head(nodes)}, E)
         IN  <<COMPONENT(SelectSeq(nodes, LAMBDA n : n \in c))>>
               \o ConnectedComponents(SelectSeq(nodes, LAMBDA n : n \notin c), E)

OneNodePerK(c) == Cardinality(KSet(c)) = CompN(c)

\* the same test against the first cluster only
FirstClusterRejects(cls, component) == cls = <<>> \/ ~validate(cls[1], component)

\* a partition that opens a cluster only while there is none
NoClusterYet(cls, component) == cls = <<>>

\* lines 640-645: not np.any([cluster.validate(component) for cluster in clusters]),
\* true of the empty list
NoClusterValidates(cls, component) ==
    \A x \in DOMAIN cls : ~validate(cls[x], component)

\* lines 628-647: solved, clusters and samples, components by descending size
RECURSIVE Partition(_, _, _)
Partition(acc, comps, order) ==
    IF order = <<>> THEN acc
    ELSE LET component == comps[Head(order)]
             next == IF CompN(component) = NKS
                     THEN [acc EXCEPT !.solved = Append(@, component)]
                     ELSE IF NoClusterValidates(acc.clusters, component)
                     THEN [acc EXCEPT !.clusters = Append(@, component)]
                     ELSE [acc EXCEPT !.samples = Append(@, component)]
         IN  Partition(next, comps, Tail(order))

Partitioned(comps) ==
    LET order == ArgSortDesc(TabSeq([x \in DOMAIN comps |-> CompN(comps[x])]), DOMAIN comps)
    IN  Partition([solved |-> <<>>, clusters |-> <<>>, samples |-> <<>>,
                   clean |-> \A x \in DOMAIN comps : OneNodePerK(comps[x])],
                  comps, order)

(***************************************************************************)
(* get_components: one pass of the merge loop (lines 652-685)              *)
(***************************************************************************)
\* scores of a sample: 0 where the cluster does not validate it
SampleScores(sample, tol) ==
    TabSeq([j \in DOMAIN clusters |->
        IF validate(clusters[j], sample) THEN get_cluster_score(sample, clusters[j], tol)
        ELSE 0])

\* self.scores[cluster.__id__] of a score never stored
ScoreKeyError ==
    \E i \in DOMAIN samples : \E j \in DOMAIN clusters :
        /\ validate(clusters[j], samples[i])
        /\ clusters[j].was_modified
        /\ clusters[j].id \notin DOMAIN samples[i].scores

\* the sample after the pass: the scores computed anew (row holds them) are stored
\* under the cluster's id
StoreScores(sample, row) ==
    LET fresh == {j \in DOMAIN clusters :
                     validate(clusters[j], sample) /\ ~clusters[j].was_modified}
        ids == {clusters[j].id : j \in fresh}
    IN  [sample EXCEPT !.scores =
            Tab([x \in (DOMAIN sample.scores) \cup ids |->
                IF x \in ids
                THEN row[CHOOSE j \in fresh : clusters[j].id = x]
                ELSE sample.scores[x]])]


\* before the first pass of the loop
NonePopped == [id |-> -1, tied |-> {}]

\* lines 653-685: every sample is scored, the best one joins its best cluster, a
\* cluster of nks nodes is promoted
Merged(tol) ==
    Only({
      LET evaluate_samples == TabSeq([i \in DOMAIN samples |->
                                  <<scores[i][ArgMax(scores[i])], ArgMax(scores[i])>>])
          arg_max == ArgMax(TabSeq([i \in DOMAIN samples |-> evaluate_samples[i][1]]))
          bn == evaluate_samples[arg_max][2]
          stored == TabSeq([i \in DOMAIN samples |-> StoreScores(samples[i], scores[i])])
          joined == join(clusters[bn], stored[arg_max])
          reset == TabSeq([j \in DOMAIN clusters |->
                       IF j = bn THEN joined ELSE [clusters[j] EXCEPT !.was_modified = FALSE]])
      IN  [samples |-> RemoveAt(stored, arg_max),
           clusters |-> IF CompN(joined) = NKS THEN RemoveAt(reset, bn) ELSE reset,
           solved |-> IF CompN(joined) = NKS THEN Append(solved, joined) ELSE solved,
           popped |-> [id |-> samples[arg_max].id,
                       tied |-> {samples[i].id : i \in
                                   {x \in DOMAIN samples :
                                       evaluate_samples[x][1] = evaluate_samples[arg_max][1]}}]]
      : scores \in {TabSeq([i \in DOMAIN samples |-> SampleScores(samples[i], tol)])}})

\* labels[component.nodes] = count on an array of nks * nbnd entries
LabelsIndexError ==
    \E x \in Range(solved) \cup Range(clusters) : \E n \in Range(x.nodes) :
        n >= n_vectors \/ n < -n_vectors

(***************************************************************************)
(* The run: make_vectors, make_connections, solve                          *)
(***************************************************************************)
NoValue(v) == Tab2([k \in Kpoints |-> [bn \in AllBands |-> v]])
Zeros == Tab([bn \in AllBands |-> 0])

\* the object after MATERIAL.__init__ and make_vectors
Fresh ==
    /\ err = ""
    /\ GRAPH_nodes = [x \in 1 .. n_vectors |-> x - 1]
    /\ GRAPH_edges = {}
    /\ repairs = <<>>
    /\ solved = <<>> /\ clusters = <<>> /\ samples = <<>>
    /\ clean_components = TRUE
    /\ merges = 0
    /\ popped = NonePopped
    /\ TOL = 5
    /\ bands_final = NoValue(-1)
    /\ signal_final = NoValue(NOT_SOLVED)
    /\ final_score = Zeros
    /\ degenerate_final = <<>>
    /\ solved_bands = <<>>
    /\ correct_signalfinal = NoValue(NOT_SOLVED)
    /\ correct_signalfinal_prev = NoValue(-1)
    /\ bands_signaling = {}
    /\ bands_final_prev = NoValue(-1)
    /\ bands_final_flag = TRUE
    /\ best_bands_final = NoValue(-1)
    /\ best_score = Zeros
    /\ best_signal_final = NoValue(NOT_SOLVED)
    /\ degenerate_best = <<>>
    /\ max_solved = 0
    /\ iterations = 0
    /\ compared = <<>>
    /\ corrected_before = NoValue(NOT_SOLVED)
    /\ snapshot = [iteration |-> 0, bands_final |-> NoValue(-1),
                   signal_final |-> NoValue(NOT_SOLVED), final_score |-> Zeros,
                   degenerate_final |-> <<>>]

\* parallelize before its loops: nothing started, result and per as the Manager
\* made them
NoProcess ==
    /\ i_start = 0
    /\ process = <<>>
    /\ worker = <<>>
    /\ result = <<>>
    /\ per = 0
    /\ iterator = <<>>
    /\ emitting = {}
    /\ n_process = 1

\* the state after MATERIAL.__init__ and make_vectors
Start ==
    /\ pc = "make_connections"
    /\ values_in = <<>>
    /\ signal_out = -1
    /\ NoProcess
    /\ Fresh

Init == material \in Materials /\ Start
InitLinked == material \in LinkedSquares /\ Start
InitDegenerate == material \in DegenerateMaterials /\ Start
InitRepair == material \in RepairMaterials /\ Start

\* evaluate_result called on its own: lists of one to MaxValues overlaps, in
\* twentieths (the material plays no part)
MaxValues == 2
ValueLists == UNION {[1 .. n -> 0 .. 20] : n \in 1 .. MaxValues}
InitEvaluate ==
    /\ material \in {m \in LinkedSquares : \A x \in DOMAIN m.bond : m.bond[x] = 1}
    /\ pc = "evaluate_result"
    /\ values_in \in ValueLists
    /\ signal_out = -1
    /\ NoProcess
    /\ Fresh

Crash(e) == pc' = "crashed" /\ err' = e

\* make_connections(tol = 0.95), then the preparation of solve (lines 990-999)
make_connections ==
    /\ pc = "make_connections"
    /\ IF EdgeIndexError
       THEN Crash("IndexError") /\ UNCHANGED <<graph_vars, repairs>>
       ELSE \E edges \in {EdgeList(0)} : \E choices \in Choices :
            \E r \in {RepairFrom([edges |-> edges, flag |-> "unbound", err |-> "",
                                  log |-> <<>>], 1, choices)} :
                /\ GRAPH_nodes' = AddEdgeNodes(GRAPH_nodes, edges)
                /\ GRAPH_edges' = EdgeSet(r.edges)
                /\ repairs' = r.log
                /\ IF r.err # "" THEN Crash(r.err) ELSE pc' = "while" /\ err' = err
    /\ UNCHANGED <<eval_vars, parallel_vars, material, component_vars, output_vars, signal_vars, best_vars, loop_vars>>

\* the loop led by the tolerance alone
solve_while_tol ==
    /\ pc = "while"
    /\ IF TOL >= material.min_tol
       THEN pc' = "get_components" /\ iterations' = iterations + 1
       ELSE pc' = "finish" /\ iterations' = iterations
    /\ corrected_before' = correct_signalfinal
    /\ UNCHANGED <<eval_vars, parallel_vars, material, repairs, err, graph_vars, component_vars, output_vars, signal_vars,
                   best_vars, TOL, bands_final_prev, bands_final_flag, compared>>

\* while bands_final_flag and TOL >= min_tol
solve_while ==
    /\ pc = "while"
    /\ IF bands_final_flag /\ TOL >= material.min_tol
       THEN pc' = "get_components" /\ iterations' = iterations + 1
       ELSE pc' = "finish" /\ iterations' = iterations
    /\ corrected_before' = correct_signalfinal
    /\ UNCHANGED <<eval_vars, parallel_vars, material, repairs, err, graph_vars, component_vars, output_vars, signal_vars,
                   best_vars, TOL, bands_final_prev, bands_final_flag, compared>>

\* get_components, lines 624-649
get_components ==
    /\ pc = "get_components"
    /\ \E parts \in {Partitioned(ConnectedComponents(GRAPH_nodes, GRAPH_edges))} :
           /\ solved' = parts.solved
           /\ clusters' = parts.clusters
           /\ samples' = parts.samples
           /\ clean_components' = parts.clean
           /\ merges' = 0
           /\ popped' = NonePopped
    /\ pc' = "merge"
    /\ UNCHANGED <<eval_vars, parallel_vars, material, repairs, err, graph_vars, output_vars, signal_vars, best_vars, loop_vars>>

\* get_components, one pass of while len(samples) > 0
merge ==
    /\ pc = "merge"
    /\ samples # <<>>
    /\ IF clusters = <<>>
       THEN Crash("ValueError") /\ UNCHANGED component_vars
       ELSE IF ScoreKeyError
       THEN Crash("KeyError") /\ UNCHANGED component_vars
       ELSE \E r \in {Merged(TOL)} :
                /\ samples' = r.samples
                /\ clusters' = r.clusters
                /\ solved' = r.solved
                /\ clean_components' = clean_components
                /\ merges' = merges + 1
                /\ popped' = r.popped
                /\ pc' = pc /\ err' = err
    /\ UNCHANGED <<eval_vars, parallel_vars, material, repairs, graph_vars, output_vars, signal_vars, best_vars, loop_vars>>

\* get_components, lines 693-705: the labels
labels ==
    /\ pc = "merge"
    /\ samples = <<>>
    /\ IF LabelsIndexError THEN Crash("IndexError") ELSE pc' = "obtain_output" /\ err' = err
    /\ UNCHANGED <<eval_vars, parallel_vars, material, repairs, graph_vars, component_vars, output_vars, signal_vars, best_vars,
                   loop_vars>>

\* solve, line 1010: self.obtain_output()
obtain_output_step ==
    /\ pc = "obtain_output"
    /\ \E out \in {obtain_output(bands_final, signal_final)} :
           IF out.err # ""
           THEN Crash(out.err) /\ UNCHANGED output_vars
           ELSE /\ bands_final' = out.bands_final
                /\ signal_final' = out.signal_final
                /\ final_score' = out.final_score
                /\ degenerate_final' = out.degenerate_final
                /\ solved_bands' = out.solved_bands
                /\ pc' = "correct_signal"
                /\ err' = err
    /\ UNCHANGED <<eval_vars, parallel_vars, material, repairs, graph_vars, component_vars, signal_vars, best_vars, loop_vars>>

\* solve, line 1014: self.correct_signal(), which compiles the output once more
correct_signal_step ==
    /\ pc = "correct_signal"
    /\ \E out \in {obtain_output(bands_final, signal_final)} :
           IF out.err # ""
           THEN Crash(out.err) /\ UNCHANGED <<output_vars, signal_vars, graph_vars>>
           ELSE \E cs \in {correct_signal(out, correct_signalfinal_prev)} :
                /\ bands_final' = out.bands_final
                /\ signal_final' = out.signal_final
                /\ final_score' = out.final_score
                /\ degenerate_final' = out.degenerate_final
                /\ solved_bands' = out.solved_bands
                /\ correct_signalfinal' = cs.correct_signalfinal
                /\ correct_signalfinal_prev' = cs.correct_signalfinal_prev
                /\ bands_signaling' = cs.bands_signaling
                /\ GRAPH_nodes' = cs.GRAPH_nodes
                /\ GRAPH_edges' = cs.GRAPH_edges
                /\ pc' = "verify"
                /\ err' = err
    /\ UNCHANGED <<eval_vars, parallel_vars, material, repairs, component_vars, best_vars, loop_vars>>

\* lines 1023-1031: the leading columns whose score did not fall and whose count of
\* unsolved points did not grow
NotSolved(sig, bn) == Cardinality({k \in Kpoints : sig[k][bn] = NOT_SOLVED})
\* the same without the comparison of the scores
ColumnCountHolds(bn) ==
    NotSolved(correct_signalfinal, bn) <= NotSolved(correct_signalfinal_prev, bn)

\* the same with a score that has to improve
ColumnStrictlyBetter(bn) ==
    /\ final_score[bn] > best_score[bn]
    /\ NotSolved(correct_signalfinal, bn) <= NotSolved(correct_signalfinal_prev, bn)

ColumnHolds(bn) ==
    /\ final_score[bn] >= best_score[bn]
    /\ NotSolved(correct_signalfinal, bn) <= NotSolved(correct_signalfinal_prev, bn)
SolvedCount ==
    IF \A bn \in AllBands : ColumnHolds(bn) THEN NBND
    ELSE SetMin({bn \in AllBands : ~ColumnHolds(bn)})

\* solve, lines 1018-1044: the comparison with the previous result, the best
\* result kept or restored, the tolerance relaxed
verify ==
    /\ pc = "verify"
    /\ bands_final_flag' = (bands_final_prev # bands_final)
    /\ bands_final_prev' = bands_final
    /\ iterations' = iterations
    /\ compared' = Append(compared, bands_final)
    /\ corrected_before' = corrected_before
    /\ TOL' = TOL - material.step
    /\ IF SolvedCount >= max_solved
       THEN /\ best_bands_final' = bands_final
            /\ best_score' = final_score
            /\ best_signal_final' = signal_final
            /\ degenerate_best' = degenerate_final
            /\ max_solved' = SolvedCount
            /\ snapshot' = [iteration |-> iterations, bands_final |-> bands_final,
                            signal_final |-> signal_final, final_score |-> final_score,
                            degenerate_final |-> degenerate_final]
            /\ pc' = "while"
            /\ err' = err
            /\ UNCHANGED <<output_vars, signal_vars, graph_vars>>
       ELSE \E out \in {obtain_output(best_bands_final, best_signal_final)} :
                /\ UNCHANGED best_vars
                /\ IF out.err # ""
                   THEN /\ Crash(out.err)
                        /\ bands_final' = best_bands_final
                        /\ signal_final' = best_signal_final
                        /\ final_score' = best_score
                        /\ degenerate_final' = degenerate_best
                        /\ UNCHANGED <<solved_bands, signal_vars, graph_vars>>
                   ELSE \E cs \in {correct_signal(out, correct_signalfinal_prev)} :
                        /\ bands_final' = out.bands_final
                        /\ signal_final' = out.signal_final
                        /\ final_score' = out.final_score
                        /\ degenerate_final' = out.degenerate_final
                        /\ solved_bands' = out.solved_bands
                        /\ correct_signalfinal' = cs.correct_signalfinal
                        /\ correct_signalfinal_prev' = cs.correct_signalfinal_prev
                        /\ bands_signaling' = cs.bands_signaling
                        /\ GRAPH_nodes' = cs.GRAPH_nodes
                        /\ GRAPH_edges' = cs.GRAPH_edges
                        /\ pc' = "while"
                        /\ err' = err
    /\ UNCHANGED <<eval_vars, parallel_vars, material, repairs, component_vars>>

\* the return without the copies of the best result
finish_as_is ==
    /\ pc = "finish"
    /\ pc' = "done"
    /\ UNCHANGED <<eval_vars, parallel_vars, material, repairs, err, graph_vars, component_vars, output_vars, signal_vars,
                   best_vars, loop_vars>>

\* solve, lines 1047-1050: the best result is maintained
finish ==
    /\ pc = "finish"
    /\ bands_final' = best_bands_final
    /\ final_score' = best_score
    /\ signal_final' = best_signal_final
    /\ degenerate_final' = degenerate_best
    /\ pc' = "done"
    /\ UNCHANGED <<eval_vars, parallel_vars, material, repairs, err, graph_vars, component_vars, solved_bands, signal_vars,
                   best_vars, loop_vars>>

(***************************************************************************)
(* MATERIAL.parallelize: the master and its processes                      *)
(***************************************************************************)
\* the lists of up to MaxItems items, the items that emit, up to MaxProcess processes
MaxItems == 4
MaxProcess == 3
InitParallel ==
    /\ material \in {m \in LinkedSquares : \A x \in DOMAIN m.bond : m.bond[x] = 1}
    /\ pc = "parallelize"
    /\ values_in = <<>>
    /\ signal_out = -1
    /\ i_start = 0
    /\ process = <<>>
    /\ worker = <<>>
    /\ result = <<>>
    /\ per = 0
    /\ \E N \in 0 .. MaxItems : iterator = [x \in 1 .. N |-> x - 1]
    /\ emitting \in SUBSET Range(iterator)
    /\ n_process \in 1 .. MaxProcess
    /\ Fresh

\* every slice but the last ends at a multiple of n
j_end_even(i) == (Len(iterator) \div n_process) * (i + 1)

\* lines 591-595: n = N // n_process, the slice iterator[i * n : j_end]
j_end(i) ==
    IF i < n_process - 1 THEN (Len(iterator) \div n_process) * (i + 1)
    ELSE (Len(iterator) \div n_process) * (i + 1) + (Len(iterator) % n_process)
Slice(i) == SubSeq(iterator, i * (Len(iterator) \div n_process) + 1, j_end(i))

\* f(iterator, *args): the elements the items of a slice emit
Emitted(slice) == SelectSeq(slice, LAMBDA x : x \in emitting)

ParallelUnchanged ==
    UNCHANGED <<eval_vars, material, err, repairs, graph_vars, component_vars, output_vars,
                signal_vars, best_vars, loop_vars, iterator, emitting, n_process>>

\* lines 592-598: one pass of the for loop, p.start() and process.append(p)
start_process ==
    /\ pc = "parallelize"
    /\ i_start < n_process
    /\ worker' = Append(worker, [slice |-> Slice(i_start), at |-> "extend", read |-> 0])
    /\ process' = Append(process, i_start + 1)
    /\ i_start' = i_start + 1
    /\ pc' = IF i_start + 1 = n_process THEN "join" ELSE pc
    /\ UNCHANGED <<result, per>>
    /\ ParallelUnchanged

\* parallel_f in a process, lines 580-582: result += f(iterator, *args), one call
\* (extend) of the Manager's list
worker_extend ==
    /\ \E w \in DOMAIN worker :
           /\ worker[w].at = "extend"
           /\ result' = result \o Emitted(worker[w].slice)
           /\ worker' = [worker EXCEPT ![w].at = "read"]
    /\ UNCHANGED <<pc, i_start, process, per>>
    /\ ParallelUnchanged

\* parallel_f, line 583: per[0] += len(iterator) reads per[0] ...
worker_read ==
    /\ \E w \in DOMAIN worker :
           /\ worker[w].at = "read"
           /\ worker' = [worker EXCEPT ![w].at = "write", ![w].read = per]
    /\ UNCHANGED <<pc, i_start, process, result, per>>
    /\ ParallelUnchanged

\* ... and writes it in a second call; the process ends
worker_write ==
    /\ \E w \in DOMAIN worker :
           /\ worker[w].at = "write"
           /\ per' = worker[w].read + Len(worker[w].slice)
           /\ worker' = [worker EXCEPT ![w].at = "exited"]
    /\ UNCHANGED <<pc, i_start, process, result>>
    /\ ParallelUnchanged

\* lines 600-602: p = process.pop(0); p.join()
join_process ==
    /\ pc = "join"
    /\ process # <<>>
    /\ worker[Head(process)].at = "exited"
    /\ process' = Tail(process)
    /\ UNCHANGED <<pc, i_start, worker, result, per>>
    /\ ParallelUnchanged

\* line 607: return np.array(result)
return_result ==
    /\ pc = "join"
    /\ process = <<>>
    /\ pc' = "returned"
    /\ UNCHANGED <<i_start, process, worker, result, per>>
    /\ ParallelUnchanged

NextParallel ==
    \/ start_process
    \/ worker_extend
    \/ worker_read
    \/ worker_write
    \/ join_process
    \/ return_result

\* evaluate_result(values), lines 65-80
evaluate_result_step ==
    /\ pc = "evaluate_result"
    /\ signal_out' = evaluate_result(values_in)
    /\ pc' = "evaluated"
    /\ UNCHANGED <<values_in, parallel_vars, material, err, repairs, graph_vars, component_vars, output_vars,
                   signal_vars, best_vars, loop_vars>>

Next ==
    \/ make_connections
    \/ solve_while
    \/ get_components
    \/ merge
    \/ labels
    \/ obtain_output_step
    \/ correct_signal_step
    \/ verify
    \/ finish

Spec == Init /\ [][Next]_vars
SpecLinked == InitLinked /\ [][Next]_vars
SpecDegenerate == InitDegenerate /\ [][Next]_vars
SpecRepair == InitRepair /\ [][Next]_vars
SpecEvaluate == InitEvaluate /\ [][evaluate_result_step]_vars
SpecParallel == InitParallel /\ [][NextParallel]_vars

\* solve returns, or the run ends in an exception; either way nothing follows
Terminated == pc \in {"done", "crashed"}

(***************************************************************************)
(* Properties of get_components                                            *)
(***************************************************************************)
PostPartition == pc = "merge" /\ merges = 0
Components == Range(clusters) \cup Range(solved)

\* C1: after any sequence of merge steps every cluster and every solved component
\* holds at most one node per k-point, provided every connected component held at
\* most one node per k-point before the merging.
C1_OneNodePerKpoint ==
    clean_components => \A c \in Components : OneNodePerK(c)

\* C2 as stated: after the partition, before any merge, no two clusters share a
\* k-id.
C2_ClustersDisjoint ==
    PostPartition =>
        \A i, j \in DOMAIN clusters : i # j => KSet(clusters[i]) \cap KSet(clusters[j]) = {}

\* C2, amended: after the partition, before any merge, no cluster validates a cluster
\* placed after it; when every component holds one node per k-point this means that
\* any two clusters share a k-id.
C2_ClustersCannotJoin ==
    PostPartition =>
        \A i, j \in DOMAIN clusters : i < j =>
            /\ ~validate(clusters[i], clusters[j])
            /\ clean_components => KSet(clusters[i]) \cap KSet(clusters[j]) # {}

\* two clusters and a sample left by the partition
C2_TwoClusters == PostPartition /\ Len(clusters) >= 2 /\ samples # <<>>

\* C3: every component in solved, put there by the partition or by the promotion of
\* a merged cluster, holds a node at each of the nks k-points.
C3_SolvedHoldEveryKpoint ==
    \A c \in Range(solved) : Cardinality(KSet(c)) = NKS

(***************************************************************************)
(* Properties of obtain_output                                             *)
(***************************************************************************)
\* C5: for every row (kid, b1, b2) of degenerate_final, signal_final[kid, b1] and
\* signal_final[kid, b2] are both 2 (DEGENERATE).
C5_DegenerateRowsSignalled ==
    \A x \in DOMAIN degenerate_final :
        /\ signal_final[degenerate_final[x][1]][degenerate_final[x][2]] = DEGENERATE
        /\ signal_final[degenerate_final[x][1]][degenerate_final[x][3]] = DEGENERATE

NoiseFree ==
    /\ material.window = <<0, NBND - 1>>
    /\ \A x \in DOMAIN material.bond : material.bond[x] = 1

\* C7: on a noise-free input solve ends, and it ends with bands_final[kid, b] = b
\* for every kid and b.
C7_NoiseFreeIdentity ==
    NoiseFree =>
        /\ pc # "crashed"
        /\ pc = "done" => \A k \in Kpoints : \A b \in AllBands : bands_final[k][b] = b

\* solve returned on a noise-free square
C7_NoiseFreeSolved == NoiseFree /\ pc = "done" /\ iterations >= 1 /\ NKY > 1

C4_BestScoreNeverDecreases ==
    [][\A bn \in AllBands : best_score'[bn] >= best_score[bn]]_vars

\* the best result replaced in a later pass than the first, by a greater score
C4_BestReplacedLater ==
    /\ snapshot.iteration >= 2
    /\ \E bn \in AllBands : best_score[bn] > 0

\* C9: when solve returns after at least one pass of the loop, bands_final,
\* signal_final, final_score and degenerate_final are the values stored at the latest
\* pass in which solved >= max_solved held.
C9_ResultIsLatestBest ==
    (pc = "done" /\ iterations >= 1) =>
        /\ snapshot.iteration >= 1
        /\ bands_final = snapshot.bands_final
        /\ signal_final = snapshot.signal_final
        /\ final_score = snapshot.final_score
        /\ degenerate_final = snapshot.degenerate_final

\* solve returned the result of an earlier pass, which the last pass did not reach
C9_EarlierResultReturned ==
    /\ pc = "done"
    /\ snapshot.iteration < iterations
    /\ bands_final # compared[Len(compared)]

\* floor((0.5 - min_tol) / step) + 1, tolerances in tenths
IterationBound == (5 - material.min_tol) \div material.step + 1

\* no pass follows one whose bands_final equals that of the pass before it
StopsWhenUnchanged ==
    \A i \in 2 .. Len(compared) : compared[i] = compared[i - 1] => iterations = i

\* what is left of the run: the passes the tolerance still allows, the steps left of
\* the pass, the samples left to merge
PcRank ==
    CASE pc = "make_connections" -> 8
      [] pc = "get_components" -> 7
      [] pc = "merge" -> 6
      [] pc = "obtain_output" -> 5
      [] pc = "correct_signal" -> 4
      [] pc = "verify" -> 3
      [] pc = "while" -> 2
      [] pc = "finish" -> 1
      [] OTHER -> 0
Rank ==
    IF Terminated THEN 0
    ELSE ((IterationBound - iterations) * 9 + PcRank) * (NBND * NKS + 1) + Len(samples)

\* C10: for step > 0 the loop terminates: it runs at most
\* floor((0.5 - min_tol) / step) + 1 passes, and it stops after the first pass whose
\* bands_final equals that of the pass before. Termination is stated by a rank that
\* is never negative and that every step of the run lowers.
C10_LoopTerminates ==
    /\ [](iterations <= IterationBound /\ StopsWhenUnchanged /\ Rank >= 0)
    /\ [][Rank' < Rank]_vars

\* solve returned after as many passes as the bound allows, bands_final still changing
C10_StoppedByTolerance ==
    pc = "done" /\ iterations = IterationBound /\ bands_final_flag

(***************************************************************************)
(* C11: the edges of the graph                                             *)
(***************************************************************************)
GraphJustBuilt == iterations = 0 /\ pc \in {"while", "crashed"}

\* the bond the nodes n1 = (k1, b1) and n2 = (k2, b2) of the window stand for
StrongBond(n1, n2) ==
    \E d \in Dirs : /\ neighbors(NodeK(n1), d) = NodeK(n2)
                    /\ connections(NodeK(n1), d, NodeBand(n1), NodeBand(n2)) > GraphTol

\* C11: right after the graph is built, and before the repair of degenerate points,
\* two nodes of the band window share an edge exactly when their k-points are grid
\* neighbours and the overlap of their bands, counted from min_band, exceeds tol
C11_EdgeIffStrongBond ==
    GraphJustBuilt =>
        \A n1, n2 \in 0 .. n_vectors - 1 : {n1, n2} \in GRAPH_edges <=> StrongBond(n1, n2)

(***************************************************************************)
(* C12: the output compiled twice                                          *)
(***************************************************************************)
\* C12: correct_signal compiles the output a second time from the same solved
\* and clusters lists: the second call ends normally and leaves bands_final,
\* signal_final and final_score as the first call left them
C12_SecondCompileSame ==
    [][pc = "correct_signal" =>
           /\ pc' = "verify"
           /\ bands_final' = bands_final
           /\ signal_final' = signal_final
           /\ final_score' = final_score
           /\ degenerate_final' = degenerate_final]_vars

\* the second call has run on an output with unsolved and doubtful points, in a
\* later pass over arrays that held an earlier result
C12_CompiledTwice ==
    /\ pc = "verify"
    /\ iterations >= 2
    /\ \E k \in Kpoints : \E bn \in AllBands :
           signal_final[k][bn] \notin {NOT_SOLVED, CORRECT}
    /\ \E bn \in AllBands : final_score[bn] > 0

(***************************************************************************)
(* C13: a cluster that finds no free band                                  *)
(***************************************************************************)
\* the cluster was written to one of the columns claimed in this call
Assigned(c) ==
    \E bn \in Range(solved_bands) : \A k \in KSet(c) : bands_final[k][bn] = OriginalBand(c, k)

HasFreeBand(c) == \E o \in Range(get_bands(c)) : o + min_band \notin Range(solved_bands)

\* C13: after the output is compiled, a cluster one of whose band offsets is still
\* free holds a slot: only a cluster whose offsets are all taken is discarded, and
\* the clusters processed after it are still assigned
C13_OnlyBlockedClusterDropped ==
    pc = "correct_signal" =>
        \A x \in DOMAIN clusters : HasFreeBand(clusters[x]) => Assigned(clusters[x])

(***************************************************************************)
(* C14: degenerate pairs without a path                                    *)
(***************************************************************************)
\* the row [k, b1, b2] of the pair is in degenerate_final
PairEmitted(p) ==
    \E x \in DOMAIN degenerate_final :
        degenerate_final[x] = <<NodeK(p[1]), NodeBand(p[1]), NodeBand(p[2])>>

UnconnectedPairs == degenerates(EdgeSet(EdgeList(0)))

\* C14: a degenerate pair with no path between its points leaves the edges of the
\* graph as they were built, and is a row of the degenerate_final that is returned
C14_UnconnectedPairEmitted ==
    /\ (GraphJustBuilt /\ pc = "while") => GRAPH_edges = EdgeSet(EdgeList(0))
    /\ pc = "done" => \A x \in DOMAIN UnconnectedPairs : PairEmitted(UnconnectedPairs[x])

(***************************************************************************)
(* C15: the corrected signals                                              *)
(***************************************************************************)
\* a step in which correct_signal ran: the one of the loop, or the one that follows
\* the restoring of the best result
CorrectorRan ==
    \/ pc = "correct_signal" /\ pc' = "verify"
    \/ pc = "verify" /\ SolvedCount < max_solved /\ pc' = "while"

\* C15: after a run of correct_signal every corrected signal is in 0..4: a CORRECT
\* (5) became 4, a signal 3 or 4 became the result of evaluate_point, and the
\* signals 0, 1, 2 are as they were
C15_SignalsReevaluated ==
    [][CorrectorRan =>
        \A k \in Kpoints : \A bn \in AllBands :
            /\ correct_signalfinal'[k][bn] \in 0 .. 4
            /\ signal_final'[k][bn] = CORRECT => correct_signalfinal'[k][bn] = CORRECT - 1
            /\ signal_final'[k][bn] \in {POTENTIAL_MISTAKE, POTENTIAL_CORRECT}
                   => correct_signalfinal'[k][bn] = evaluate_point(bands_final', k, bn)
            /\ signal_final'[k][bn] \in {NOT_SOLVED, MISTAKE, DEGENERATE}
                   => correct_signalfinal'[k][bn] = signal_final'[k][bn]]_vars

\* C15, amended: as above, but a signal that evaluate_point rates OTHER (3) and that
\* was 3 in correct_signalfinal_prev before the run becomes 4
C15_SignalsReevaluatedOrPromoted ==
    [][CorrectorRan =>
        \A k \in Kpoints : \A bn \in AllBands :
            /\ correct_signalfinal'[k][bn] \in 0 .. 4
            /\ signal_final'[k][bn] = CORRECT => correct_signalfinal'[k][bn] = CORRECT - 1
            /\ signal_final'[k][bn] \in {POTENTIAL_MISTAKE, POTENTIAL_CORRECT}
                   => correct_signalfinal'[k][bn] =
                        IF /\ evaluate_point(bands_final', k, bn) = SIGNAL_OTHER
                           /\ correct_signalfinal_prev[k][bn] = SIGNAL_OTHER
                        THEN CORRECT - 1 ELSE evaluate_point(bands_final', k, bn)
            /\ signal_final'[k][bn] \in {NOT_SOLVED, MISTAKE, DEGENERATE}
                   => correct_signalfinal'[k][bn] = signal_final'[k][bn]]_vars

\* a run has left 4 where evaluate_point rates the point OTHER, next to a
\* re-evaluated signal that it left as evaluate_point rates it
C15_PersistingOtherPromoted ==
    /\ pc = "verify"
    /\ \E k \in Kpoints : \E bn \in AllBands :
           /\ signal_final[k][bn] \in {POTENTIAL_MISTAKE, POTENTIAL_CORRECT}
           /\ evaluate_point(bands_final, k, bn) = SIGNAL_OTHER
           /\ correct_signalfinal[k][bn] = CORRECT - 1

(***************************************************************************)
(* C16: the stored scores                                                  *)
(***************************************************************************)
\* C16: in a merge pass the score of a sample against a cluster that a sample was
\* joined into since the score was stored is computed anew on the cluster as it
\* is now; a stored score answers only for a cluster not modified since
C16_ModifiedClusterRescored ==
    pc = "merge" =>
        \A i \in DOMAIN samples : \A j \in DOMAIN clusters :
            (/\ validate(clusters[j], samples[i])
             /\ clusters[j].was_modified
             /\ clusters[j].id \in DOMAIN samples[i].scores)
                => get_cluster_score(samples[i], clusters[j], TOL)
                     = cluster_score(samples[i], clusters[j], TOL)


\* ---------------------------------------------------------------------------
\* C17  From the second pass of the loop on, a band is counted as solved only
\* if its score is not below its best score and it has no more NOT_SOLVED
\* entries in the corrected signals of this pass than it had in the corrected
\* signals of the pass before; the count starts at band 0 and stops at the
\* first band that fails.
NoWorseThanBefore(bn) ==
    /\ final_score[bn] >= best_score[bn]
    /\ NotSolved(correct_signalfinal, bn) <= NotSolved(corrected_before, bn)

C17_CountStopsAtFirstFailure ==
    (pc = "verify" /\ iterations >= 2) =>
        /\ \A bn \in AllBands : bn < SolvedCount => NoWorseThanBefore(bn)
        /\ SolvedCount < NBND => ~NoWorseThanBefore(SolvedCount)

\* a pass after the first counts some bands, stops at one that fails, and
\* leaves uncounted a later band that would have passed
C17_LaterBandNotCounted ==
    /\ pc = "verify"
    /\ iterations >= 2
    /\ SolvedCount > 0
    /\ \E bn \in AllBands : bn > SolvedCount /\ NoWorseThanBefore(bn)


\* ---------------------------------------------------------------------------
\* C18  Whatever the partition, every pass of the merge loop ends normally and
\* removes exactly one sample, so that the loop ends with no samples after as
\* many passes as there were samples.
SamplesAtPartition == Len(Partitioned(ConnectedComponents(GRAPH_nodes, GRAPH_edges)).samples)

C18_EveryPassRemovesOneSample ==
    [][(pc = "merge" /\ samples # <<>>) =>
           /\ pc' = "merge"
           /\ Len(samples') = Len(samples) - 1
           /\ merges' + Len(samples') = SamplesAtPartition]_vars


\* the loop has ended after two or more passes, one per sample of the partition,
\* and a cluster that reached nks nodes on the way was promoted
C18_LoopEndedAfterAllSamples ==
    /\ pc = "merge"
    /\ samples = <<>>
    /\ merges >= 2
    /\ merges = SamplesAtPartition
    /\ Len(solved) > Len(Partitioned(ConnectedComponents(GRAPH_nodes, GRAPH_edges)).solved)


\* ---------------------------------------------------------------------------
\* C19  The sample merged in a pass has the greatest best score of the samples
\* left and, of the samples with that score, the lowest identifier; it joins
\* a cluster that gave it that score.
BestScore(sample) == SetMax(Range(SampleScores(sample, TOL)))
SampleIds(s) == {s[i].id : i \in DOMAIN s}
\* the cluster of identifier id after the pass, among the clusters and the solved
After(id) == CHOOSE c \in Range(clusters') \cup Range(solved') : c.id = id
JoinedBest(i) ==
    \E c \in DOMAIN clusters :
        /\ SampleScores(samples[i], TOL)[c] = BestScore(samples[i])
        /\ Range(samples[i].nodes) \subseteq Range(After(clusters[c].id).nodes)

C19_HighestScoreLowestId ==
    [][(pc = "merge" /\ samples # <<>> /\ pc' = "merge") =>
           \E i \in DOMAIN samples :
               /\ SampleIds(samples') = SampleIds(samples) \ {samples[i].id}
               /\ \A j \in DOMAIN samples :
                      /\ BestScore(samples[j]) <= BestScore(samples[i])
                      /\ BestScore(samples[j]) = BestScore(samples[i])
                             => samples[i].id <= samples[j].id
               /\ JoinedBest(i)]_vars


\* C19 as the code has it: of the samples with the greatest best score the one
\* first in the list of samples is merged, into the first cluster of the list
\* that gave it that score.
JoinedFirstBest(i) ==
    \E c \in DOMAIN clusters :
        /\ SampleScores(samples[i], TOL)[c] = BestScore(samples[i])
        /\ \A d \in 1 .. c - 1 : SampleScores(samples[i], TOL)[d] < BestScore(samples[i])
        /\ After(clusters[c].id).nodes =
               clusters[c].nodes \o SelectSeq(samples[i].nodes,
                                              LAMBDA n : n \notin Range(clusters[c].nodes))

C19_HighestScoreFirstListed ==
    [][(pc = "merge" /\ samples # <<>> /\ pc' = "merge") =>
           \E i \in DOMAIN samples :
               /\ [x \in DOMAIN samples' |-> samples'[x].id] =
                      [x \in 1 .. Len(samples) - 1 |->
                          IF x < i THEN samples[x].id ELSE samples[x + 1].id]
               /\ \A j \in DOMAIN samples :
                      /\ BestScore(samples[j]) <= BestScore(samples[i])
                      /\ j < i => BestScore(samples[j]) < BestScore(samples[i])
               /\ JoinedFirstBest(i)]_vars

\* the last pass merged a sample although a sample of the same best score had a
\* lower identifier
C19_HigherIdentifierMerged ==
    /\ pc = "merge"
    /\ merges >= 1
    /\ \E x \in popped.tied : x < popped.id


\* ---------------------------------------------------------------------------
\* C20  When a pass of the loop is rejected (solved < max_solved), then after
\* the best result is restored and the signals are corrected again, bands_final,
\* signal_final and final_score are those of the best result.
C20_RejectedPassRestoresBest ==
    [][(pc = "verify" /\ SolvedCount < max_solved /\ pc' = "while") =>
           /\ bands_final' = best_bands_final'
           /\ signal_final' = best_signal_final'
           /\ final_score' = best_score']_vars


(***************************************************************************)
(* C21: the error mask of correct_signal                                   *)
(***************************************************************************)
\* the signals of the run before they are set to 4 at line 970
SignalsOfRun == CorrectedSignals(bands_final', signal_final')

\* C21: the error mask of a run of correct_signal holds exactly the (k, b) whose
\* corrected signal is MISTAKE, or is OTHER and was OTHER in the corrected signals
\* of the run before.
C21_MaskOfPersistingOther ==
    [][CorrectorRan =>
        bands_signaling' =
            {e \in Kpoints \X AllBands :
                \/ SignalsOfRun[e[1]][e[2]] = MISTAKE
                \/ /\ SignalsOfRun[e[1]][e[2]] = SIGNAL_OTHER
                   /\ correct_signalfinal_prev[e[1]][e[2]] = SIGNAL_OTHER}]_vars

\* C21 as the code has it: the mask holds exactly the (k, b) whose corrected signal
\* is MISTAKE, or is OTHER and was not OTHER in correct_signalfinal_prev.
C21_MaskOfNewOther ==
    [][CorrectorRan =>
        bands_signaling' =
            {e \in Kpoints \X AllBands :
                \/ SignalsOfRun[e[1]][e[2]] = MISTAKE
                \/ /\ SignalsOfRun[e[1]][e[2]] = SIGNAL_OTHER
                   /\ correct_signalfinal_prev[e[1]][e[2]] # SIGNAL_OTHER}]_vars

\* a run has masked an entry that it rated OTHER: one that was not OTHER before
C21_NewOtherMasked ==
    /\ pc = "verify"
    /\ \E e \in bands_signaling : correct_signalfinal[e[1]][e[2]] = SIGNAL_OTHER


(***************************************************************************)
(* C22: the nodes of the graph                                             *)
(***************************************************************************)
\* C22: after make_connections and after every graph built by correct_signal the
\* nodes of the graph are exactly 0 .. V - 1, whatever min_band is and also when
\* entries of bands_final are -1.
C22_NodesAreTheVectors ==
    pc # "make_connections" => Range(GRAPH_nodes) = 0 .. n_vectors - 1


C30_RepairCompletes ==
    [][(pc = "make_connections" /\ ~EdgeIndexError) => pc' = "while"]_vars


(***************************************************************************)
(* C24: evaluate_result                                                    *)
(***************************************************************************)
\* C24: evaluate_result gives 5 for a mean above 0.9, 4 for a mean above 0.8 up
\* to 0.9, 3 for a mean above 0.2 up to 0.8 (0.8 included) and 1 for a mean up
\* to 0.2.
C24_SignalOfMean ==
    pc = "evaluated" =>
        LET n == Len(values_in)
            total == SumSeq(values_in)
        IN  signal_out =
                IF total > EvalTOL * n THEN CORRECT
                ELSE IF total > EvalTOL_DEG * n THEN POTENTIAL_CORRECT
                ELSE IF total > EvalTOL_MIN * n THEN POTENTIAL_MISTAKE
                ELSE MISTAKE


(***************************************************************************)
(* C25: the slices of parallelize and the result it returns                *)
(***************************************************************************)
RECURSIVE SlicesJoined(_)
SlicesJoined(w) == IF w = 0 THEN <<>> ELSE SlicesJoined(w - 1) \o worker[w].slice

\* C25: the slices handed to the processes are contiguous, pairwise disjoint and,
\* once all are started, cover the N items (joined in order they are the list of
\* items), and the result returned after the joins holds every element emitted by
\* every process exactly once, in every interleaving
C25_SlicesCoverResultComplete ==
    /\ Len(worker) = i_start
    /\ SlicesJoined(Len(worker)) = SubSeq(iterator, 1, Len(SlicesJoined(Len(worker))))
    /\ pc \in {"join", "returned"} =>
           /\ Len(worker) = n_process
           /\ SlicesJoined(n_process) = iterator
    /\ pc = "returned" =>
           /\ \A w \in DOMAIN worker : worker[w].at = "exited"
           /\ Len(result) = Cardinality(emitting)
           /\ Range(result) = emitting
           /\ \A w \in DOMAIN worker : \A x \in Range(Emitted(worker[w].slice)) :
                  Cardinality({i \in DOMAIN result : result[i] = x}) = 1

\* three processes over four items returned, a later process having emitted before
\* an earlier one
C25_ReturnedOutOfOrder ==
    /\ pc = "returned"
    /\ n_process = 3
    /\ Len(iterator) = 4
    /\ Len(worker[3].slice) = 2
    /\ emitting = Range(iterator)
    /\ result = <<2, 3, 1, 0>>


(***************************************************************************)
(* C26, C27: the components across the merge steps                         *)
(***************************************************************************)
\* C26: after a merge step no component left in clusters covers the whole grid: the
\* cluster that the join of that step produced, if it is still in clusters, misses a
\* k-point
C26_FullClusterPromoted ==
    [][merges' = merges + 1 =>
          \A c \in Range(clusters') :
              c.nodes \notin {d.nodes : d \in Range(clusters)} => KSet(c) # Kpoints]_vars


AllComponents == solved \o clusters \o samples

\* C27: throughout get_components the node sets of the components in solved,
\* clusters and samples are pairwise disjoint and their union is the node set of
\* the graph; a merge step loses no node and duplicates none
C27_ComponentsPartitionNodes ==
    pc = "merge" =>
        /\ \A i, j \in DOMAIN AllComponents :
               i # j => Range(AllComponents[i].nodes) \cap Range(AllComponents[j].nodes) = {}
        /\ \A i \in DOMAIN AllComponents :
               Len(AllComponents[i].nodes) = Cardinality(Range(AllComponents[i].nodes))
        /\ UNION {Range(AllComponents[i].nodes) : i \in DOMAIN AllComponents}
               = Range(GRAPH_nodes)

\* two merge steps done, a sample still waiting, a cluster grown by a join
C27_MergedTwice ==
    /\ pc = "merge"
    /\ merges = 2
    /\ samples # <<>>
    /\ \E c \in Range(clusters) : c.was_modified


(***************************************************************************)
(* C28: what the output compiler leaves in bands_final                     *)
(***************************************************************************)
\* the component that claimed solved_bands[i]: the solved components in their order,
\* then the clusters from the largest
Claimant(i) ==
    IF i <= Len(solved) THEN solved[i]
    ELSE clusters[ArgSortDesc(TabSeq([x \in DOMAIN clusters |-> CompN(clusters[x])]),
                              DOMAIN clusters)[i - Len(solved)]]

\* C28: after a run of the output compiler, bands_final[kid, p] differs from -1
\* only if a solved component or cluster of this iteration claimed band p and holds
\* k-point kid; nothing written in an earlier iteration is left in another slot
C28_OnlyCurrentAssignments ==
    pc = "correct_signal" =>
        \A k \in Kpoints : \A p \in AllBands :
            bands_final[k][p] # -1 =>
                \E i \in DOMAIN solved_bands :
                    PyIdx(solved_bands[i]) = p /\ k \in KSet(Claimant(i))


(***************************************************************************)
(* C29: the signals emitted when solve returns                             *)
(***************************************************************************)
\* C29: when solve has returned, correct_signalfinal is the corrected signal of the
\* signal_final emitted with it: CORRECT has become CORRECT - 1, and NOT_SOLVED,
\* MISTAKE and DEGENERATE are kept
C29_CorrectedIsOfEmitted ==
    (pc = "done" /\ iterations >= 1) =>
        \A k \in Kpoints : \A bn \in AllBands :
            /\ signal_final[k][bn] = CORRECT => correct_signalfinal[k][bn] = CORRECT - 1
            /\ signal_final[k][bn] \in {NOT_SOLVED, MISTAKE, DEGENERATE} =>
                   correct_signalfinal[k][bn] = signal_final[k][bn]

====
